---------------------------- MODULE Spec2Model ----------------------------
(***************************************************************************)
(* Model of bridge.py: the warden's scan_blocks relay between a source     *)
(* chain and a destination chain.  One scan reads the scanned chain's      *)
(* latest block, fetches the Deposit (source) or Unwrap (destination)      *)
(* logs of the last BLOCKS_TO_SCAN blocks and, for each log, submits a     *)
(* wrap / withdraw transaction to the other chain.                         *)
(*                                                                         *)
(* The two chains are the environment: their heads grow, their contracts   *)
(* emit logs, the warden's transactions get mined, and every RPC call may  *)
(* fail.  The program keeps no state between two scans.                    *)
(*                                                                         *)
(* Spec runs scans in any order, SpecOneScan and SpecRepeats one scan,     *)
(* SpecMain the script's __main__ (source scan, destination scan, exit),   *)
(* SpecDispatch the loop over the collected entries and SpecBatchLoop the  *)
(* destination scan's batch loop for any window and batch size.            *)
(***************************************************************************)
EXTENDS Integers, Sequences, FiniteSets, TLC

\* ------------------------------------------------------------ constants

BLOCKS_TO_SCAN == 5

LOG_FETCH_BATCH_SIZE == 1

\* Highest block number a chain reaches: two blocks past a full window.
MaxBlock == BLOCKS_TO_SCAN + 2

\* Logs emitted by the two contracts together.
MaxEvents == 2

\* Calls of scan_blocks in one behaviour.
MaxScans == 2

\* Sub-range queries that fail in one scan.
MaxSkips == 1

\* Largest value of LOG_FETCH_BATCH_SIZE the batch loop is run with.
MaxBatchSize == 3

RPC_URLS == {"source", "destination"}

Max(a, b) == IF a >= b THEN a ELSE b

Min(a, b) == IF a <= b THEN a ELSE b

\* The chain a scan of `c` sends its transactions to.
Opposite(c) == IF c = "source" THEN "destination" ELSE "source"

\* The event the scan of chain `c` asks the node for.
ScannedEvent(c) == IF c = "source" THEN "Deposit" ELSE "Unwrap"

\* ------------------------------------------------------------ state

VARIABLES
    head,             \* head[c]: block number of chain c's latest block
    logs,             \* logs[c]: the logs of c's bridge contract, in chain order
    txCount,          \* txCount[c]: mined transactions of the warden on c
    pc,               \* where scan_blocks is ("exited": the script has left)
    chain,            \* scan_blocks' argument
    latest_block,
    start_block,
    current_block,
    all_events,
    idx,              \* position of `for event in all_events`
    events_processed,
    result,           \* "none", "returned" or "raised"
    exception,        \* the call that raised: "none", "chain", "setup",
                      \* "block_number", "get_logs" or "decode"
    scanNo,           \* calls of scan_blocks so far
    skipped,          \* first blocks of the sub-ranges whose query failed
    grown,            \* the scanned chain's new blocks have been added
    queried,          \* the (from_block, to_block) of every log query of the
                      \* scan, in order
    log_fetch_batch_size,  \* the value of LOG_FETCH_BATCH_SIZE
    relays            \* every pass through the build/sign/send block, in order

vars == <<head, logs, txCount, pc, chain, latest_block, start_block,
          current_block, all_events, idx, events_processed, result,
          exception, scanNo, skipped, grown, queried, log_fetch_batch_size,
          relays>>

scanVars == <<chain, latest_block, start_block, current_block, all_events,
              idx, events_processed, result, exception, scanNo, skipped,
              grown, queried, log_fetch_batch_size>>


\* ------------------------------------------------------------ the chains

\* Number of logs the two contracts have emitted.
Emitted == Len(logs["source"]) + Len(logs["destination"])

\* How the ABI of contract_info.json may decode an event: "full" carries the
\* four fields the scan reads, the others name one of them differently, so
\* that the decoded arguments lack it.
Shapes == {"full", "notoken", "nouser", "noamount", "nononce"}

\* The field that the arguments of a shape lack.
Lacking(shape) ==
    CASE shape = "notoken"  -> {"token"}
      [] shape = "nouser"   -> {"user"}
      [] shape = "noamount" -> {"amount"}
      [] shape = "nononce"  -> {"nonce"}
      [] OTHER              -> {}

\* The decoded arguments of the n-th event of a contract.
EventArgs(n, shape) ==
    LET full == [token |-> "T", user |-> "A", amount |-> 100 * n, nonce |-> n]
    IN  [f \in DOMAIN full \ Lacking(shape) |-> full[f]]

\* The decoded log entry (web3's AttributeDict) of the n-th event of chain
\* c's contract.
DecodedLog(c, name, n, shape, block, index) ==
    [event           |-> name,
     args            |-> EventArgs(n, shape),
     blockNumber     |-> block,
     logIndex        |-> index,
     transactionHash |-> <<c, block, index>>]

\* The entry of a log that chain c's contract emits next, at place `index` of
\* block `block`.
LogEntry(c, name, shape, block, index) ==
    DecodedLog(c, name, Len(logs[c]) + index + 1, shape, block, index)

\* The logs a bridge contract emits: the event the scan of its chain asks
\* for, which the ABI of contract_info.json decodes in full or without `user`,
\* and logs of another event.
LogKinds(c) == {<<ScannedEvent(c), "full">>, <<ScannedEvent(c), "nouser">>,
                <<"Transfer", "full">>}

\* How far a chain has grown between two looks at it: by one block (the next
\* window shares all but one block with the last one), by half a window, or
\* by a whole window and one block (the next window shares none).
Strides == {1, (BLOCKS_TO_SCAN + 1) \div 2, BLOCKS_TO_SCAN + 1}

\* Chain c grows by n blocks, the last of which holds logs of the kinds `ks`.
\* Only a scan of c reads c's head and logs, once, after its setup: the blocks
\* that appeared since the last look are added right before it.
NewBlocks(c, n, ks) ==
    /\ pc = "setup"
    /\ chain = c
    /\ grown' = TRUE
    /\ head[c] + n <= MaxBlock
    /\ Emitted + Len(ks) <= MaxEvents
    /\ head' = [head EXCEPT ![c] = @ + n]
    /\ logs' = [logs EXCEPT ![c] = @ \o
                 [i \in 1..Len(ks) |->
                    LogEntry(c, ks[i][1], ks[i][2], head[c] + n, i - 1)]]
    /\ UNCHANGED <<txCount, pc, relays, chain, latest_block, start_block,
                   current_block, all_events, idx, events_processed, result,
                   exception, scanNo, skipped, queried,
                   log_fetch_batch_size>>

\* A transaction of the warden is waiting on chain c with the account's next
\* nonce.
Pending(c) ==
    \E i \in 1..Len(relays) :
        /\ relays[i].outcome = "sent"
        /\ relays[i].target = c
        /\ relays[i].warden_nonce = txCount[c]

\* Chain c mines the warden's next waiting transaction.  Only the dispatch
\* loop of a scan of the other chain reads the count.
Mine(c) ==
    /\ pc = "process"
    /\ chain = Opposite(c)
    /\ idx <= Len(all_events)
    /\ Pending(c)
    /\ txCount' = [txCount EXCEPT ![c] = @ + 1]
    /\ UNCHANGED <<head, logs, pc, relays>>
    /\ UNCHANGED scanVars

\* The logs of chain c's contract that match a filter on the event the scan
\* of c asks for (contract.events.Deposit / Unwrap) over blocks from..to, in
\* chain order.
LogsIn(c, from, to) ==
    SelectSeq(logs[c], LAMBDA e : /\ e.event = ScannedEvent(c)
                                  /\ from <= e.blockNumber
                                  /\ e.blockNumber <= to)

\* The orders in which a node may list the entries of s.
Orderings(s) ==
    {[i \in 1..Len(s) |-> s[p[i]]] : p \in Permutations(1..Len(s))}

\* No two entries of s are the same log.
NoDuplicate(s) == \A i, j \in 1..Len(s) : s[i] = s[j] => i = j

\* What a node may answer to a query that the logs s match: the logs in some
\* order and, if `again`, possibly with one of them listed a second time (a
\* provider that merges the answers of several nodes, a log re-delivered
\* around a reorganisation).  The scan takes the list as it comes.
Responses(s, again) ==
    Orderings(s) \cup
    {Append(o, o[1]) : o \in {q \in Orderings(s) : again /\ q # <<>>}}

\* ------------------------------------------------------------ scan_blocks

Init ==
    /\ head = [c \in RPC_URLS |-> 0]
    /\ logs = [c \in RPC_URLS |-> <<>>]
    /\ txCount = [c \in RPC_URLS |-> 0]
    /\ pc = "idle"
    /\ chain = "source"
    /\ latest_block = 0
    /\ start_block = 0
    /\ current_block = 0
    /\ all_events = <<>>
    /\ idx = 1
    /\ events_processed = 0
    /\ result = "none"
    /\ exception = "none"
    /\ scanNo = 0
    /\ skipped = {}
    /\ grown = FALSE
    /\ queried = <<>>
    /\ log_fetch_batch_size = LOG_FETCH_BATCH_SIZE
    /\ relays = <<>>

\* scan_blocks raises: the exception of the call `site` leaves the function.
Raise(site) ==
    /\ pc' = "done"
    /\ result' = "raised"
    /\ exception' = site

\* The call scan_blocks(c): the argument check, then the locals of a fresh call.
StartScan(c) ==
    /\ pc \in {"idle", "done"}
    /\ scanNo < MaxScans
    /\ scanNo' = scanNo + 1
    /\ chain' = c
    /\ latest_block' = 0
    /\ start_block' = 0
    /\ current_block' = 0
    /\ all_events' = <<>>
    /\ idx' = 1
    /\ events_processed' = 0
    /\ skipped' = {}
    /\ grown' = FALSE
    /\ queried' = <<>>
    /\ IF c \in {"source", "destination"}
       THEN pc' = "setup" /\ result' = "none" /\ exception' = "none"
       ELSE Raise("chain")
    /\ UNCHANGED <<head, logs, txCount, relays, log_fetch_batch_size>>

\* What a call of scan_blocks finds around it: which endpoints answer
\* (`up`), the contract info file (`file`: "ok", "missing" or "malformed"),
\* the roles the file has and the keys it gives for each (`data`), and
\* whether the addresses it gives are well-formed (`checksum`).
\* Sound is the environment in which the setup goes through; the others
\* differ from it in one respect.
Sound ==
    [up       |-> [c \in RPC_URLS |-> TRUE],
     file     |-> "ok",
     data     |-> [c \in RPC_URLS |-> {"address", "abi"}],
     checksum |-> TRUE]

Environments ==
    {Sound, [Sound EXCEPT !.checksum = FALSE]}
    \cup {[Sound EXCEPT !.up[c] = FALSE] : c \in RPC_URLS}
    \cup {[Sound EXCEPT !.file = f] : f \in {"missing", "malformed"}}
    \cup {[Sound EXCEPT !.data = [r \in RPC_URLS \ {c} |-> Sound.data[r]]] :
             c \in RPC_URLS}
    \cup {[Sound EXCEPT !.data[c] = @ \ {key}] :
             c \in RPC_URLS, key \in {"address", "abi"}}

\* connect_to(c): the exception it raises, or "none".
ConnectTo(c, env) ==
    IF c \notin RPC_URLS THEN "ValueError"
    ELSE IF ~env.up[c] THEN "ConnectionError"
    ELSE "none"

\* get_contract_info without the check of the two keys.
GetContractInfoAnyKeys(c, env) ==
    IF env.file = "missing" THEN "FileNotFoundError"
    ELSE IF env.file = "malformed" THEN "RuntimeError"
    ELSE IF c \notin DOMAIN env.data THEN "KeyError"
    ELSE "none"

\* get_contract_info(c): the exception it raises, or "none".
GetContractInfo(c, env) ==
    IF env.file = "missing" THEN "FileNotFoundError"
    ELSE IF env.file = "malformed" THEN "RuntimeError"
    ELSE IF c \notin DOMAIN env.data THEN "KeyError"
    ELSE IF ~({"address", "abi"} \subseteq env.data[c]) THEN "KeyError"
    ELSE "none"

\* The first exception of the setup block, in the order of its calls, or
\* "none": the two connections, the two reads of the contract info, the
\* construction of the two contracts.
SetupError(env) ==
    LET calls == <<ConnectTo("source", env),
                   ConnectTo("destination", env),
                   GetContractInfo("source", env),
                   GetContractInfo("destination", env),
                   IF env.checksum THEN "none" ELSE "ValueError">>
        raising == {k \in 1..Len(calls) : calls[k] # "none"}
    IN  IF raising = {} THEN "none"
        ELSE calls[CHOOSE k \in raising : \A m \in raising : k <= m]

\* The setup block in the environment `env`: it goes through, or its first
\* exception leaves scan_blocks.
Setup(env) ==
    /\ pc = "setup"
    /\ IF SetupError(env) = "none"
       THEN pc' = "range" /\ UNCHANGED <<result, exception>>
       ELSE Raise("setup")
    /\ UNCHANGED <<head, logs, txCount, relays, chain, latest_block,
                   start_block, current_block, all_events, idx,
                   events_processed, scanNo, skipped, grown, queried,
                   log_fetch_batch_size>>

\* The start block without the clamp at 0.
StartBlockNoClamp(latest) == latest - BLOCKS_TO_SCAN

\* start_block = max(0, latest_block - BLOCKS_TO_SCAN)
StartBlock(latest) == Max(0, latest - BLOCKS_TO_SCAN)

\* Reading the scanned chain's block number and fixing the window; `ok` is
\* whether eth.block_number answered.
DetermineRange(ok) ==
    /\ pc = "range"
    /\ IF ok
       THEN /\ latest_block' = head[chain]
            /\ start_block' = StartBlock(head[chain])
            /\ current_block' =
                 IF chain = "destination" THEN StartBlock(head[chain]) ELSE 0
            /\ pc' = "fetch"
            /\ UNCHANGED <<result, exception>>
       ELSE /\ Raise("block_number")
            /\ UNCHANGED <<latest_block, start_block, current_block>>
    /\ UNCHANGED <<head, logs, txCount, relays, chain, all_events, idx,
                   events_processed, scanNo, skipped, grown, queried,
                   log_fetch_batch_size>>

\* A filter that starts one block before the window.
FilterFromOneEarlier == start_block - 1

\* from_block of the Deposit filter.
FilterFrom == start_block

\* Source: one filter over the whole window.  The node answers with the
\* window's logs in some order (and, if `again`, possibly one of them twice),
\* or the call raises and scan_blocks re-raises.
FetchSource(ok, again) ==
    /\ pc = "fetch"
    /\ chain = "source"
    /\ IF ok
       THEN /\ all_events' \in
                 Responses(LogsIn("source", FilterFrom, latest_block), again)
            /\ pc' = "process"
            /\ UNCHANGED <<result, exception>>
       ELSE /\ Raise("get_logs")
            /\ UNCHANGED all_events
    /\ queried' = Append(queried, <<FilterFrom, latest_block>>)
    /\ UNCHANGED <<head, logs, txCount, relays, chain, latest_block,
                   start_block, current_block, idx, events_processed,
                   scanNo, skipped, grown, log_fetch_batch_size>>

\* The end of a batch without the cut at the latest block.
BatchEndUncut(current, latest) == current + log_fetch_batch_size - 1

\* batch_end_block = min(current_block + LOG_FETCH_BATCH_SIZE - 1, latest_block)
BatchEnd(current, latest) == Min(current + log_fetch_batch_size - 1, latest)

\* Option 1 of the handler's comments: stop when a batch fails.
BatchErrorAborts == TRUE

\* Whether a failed get_logs of one batch ends the scan: both handlers of the
\* batch loop print and go on.
BatchErrorRaises == FALSE

\* Destination: one turn of the batch loop.  `answer` is what get_logs did:
\* "ok", "notfound" (BlockNotFound) or "error" (any other exception); if
\* `again`, the nodes may list one log of the scan twice.
FetchBatch(answer, again) ==
    /\ pc = "fetch"
    /\ chain = "destination"
    /\ current_block <= latest_block
    /\ answer # "ok" => Cardinality(skipped) < MaxSkips
    /\ LET batch_end_block == BatchEnd(current_block, latest_block)
           loop == /\ current_block' = batch_end_block + 1
                   /\ pc' = IF batch_end_block + 1 <= latest_block
                            THEN "fetch" ELSE "process"
                   /\ UNCHANGED <<result, exception>>
       IN  IF answer = "ok"
           THEN /\ \E batch_events \in
                       Responses(LogsIn("destination", current_block,
                                        batch_end_block),
                                 again /\ NoDuplicate(all_events)) :
                       all_events' = all_events \o batch_events
                /\ loop
                /\ UNCHANGED skipped
           ELSE /\ skipped' = skipped \cup {current_block}
                /\ UNCHANGED all_events
                /\ IF BatchErrorRaises
                   THEN Raise("get_logs") /\ UNCHANGED current_block
                   ELSE loop
    /\ queried' = Append(queried,
                         <<current_block, BatchEnd(current_block, latest_block)>>)
    /\ UNCHANGED <<head, logs, txCount, relays, chain, latest_block,
                   start_block, idx, events_processed, scanNo, grown,
                   log_fetch_batch_size>>


\* ------------------------------------------------------------ dispatch

\* args.token, args.user, args.amount, args.nonce: an attribute the decoded
\* arguments lack raises AttributeError.
Decodes(args) == {"token", "user", "amount", "nonce"} \subseteq DOMAIN args

\* The handler of AttributeError re-raises.
DecodeErrorAborts == TRUE

\* Whether an entry that does not decode ends the scan: the handlers of
\* AttributeError and Exception around the loop body print and `continue`.
DecodeErrorRaises == FALSE

\* The event names the loop knows.
Known(event_name) == event_name \in {"Deposit", "Unwrap"}

\* The transaction goes to the chain the event comes from.
TargetChainOfEvent(event_name) ==
    IF event_name = "Deposit" THEN "source" ELSE "destination"

\* target_w3: Deposit goes to the destination chain, Unwrap to the source.
TargetChain(event_name) ==
    IF event_name = "Deposit" THEN "destination" ELSE "source"

\* tx_func: wrap for a Deposit, withdraw for an Unwrap.
TxFunction(event_name) ==
    IF event_name = "Deposit" THEN "wrap" ELSE "withdraw"

\* The same call with the account before the token.
TxArgumentsUserFirst(args) ==
    <<args.user, args.token, args.amount, args.nonce>>

\* The arguments of the call: (token_address, user, amount, nonce).
TxArguments(args) == <<args.token, args.user, args.amount, args.nonce>>

\* The nonce of the last transaction built for the target chain, if any.
LastUsedNonce(target) ==
    LET earlier == {i \in 1..Len(relays) : relays[i].target = target}
    IN  IF earlier = {} THEN txCount[target]
        ELSE relays[CHOOSE i \in earlier : \A k \in earlier : k <= i].warden_nonce

\* target_w3.eth.get_transaction_count(WARDEN_ADDRESS): the warden's mined
\* transactions on the target chain.
GetTransactionCount(target) == txCount[target]

\* What one pass through the build/sign/send block leaves behind.  `outcome`
\* is "sent" (send_raw_transaction returned a hash), "reverted"
\* (ContractLogicError) or "failed" (any other exception of the block).
Relay(event, outcome) ==
    [scan         |-> scanNo,
     role         |-> chain,
     event        |-> event.event,
     nonce        |-> event.args.nonce,
     blockNumber  |-> event.blockNumber,
     logIndex     |-> event.logIndex,
     target       |-> TargetChain(event.event),
     function     |-> TxFunction(event.event),
     arguments    |-> TxArguments(event.args),
     warden_nonce |-> GetTransactionCount(TargetChain(event.event)),
     outcome      |-> outcome]

\* Every pass through the build/sign/send block is counted.
CountedOnAttempt(outcome) == TRUE

\* `events_processed += 1` comes after send_raw_transaction in the try block:
\* it is reached when the call returned a hash.
Counted(outcome) == outcome = "sent"

\* The loop stays on the entry it has just gone through.
RepeatEvent(i) == i

\* `for event in all_events`: the position after position i.
NextEvent(i) == i + 1

\* One turn of `for event in all_events`.
ProcessEvent(outcome) ==
    /\ pc = "process"
    /\ idx <= Len(all_events)
    /\ LET event == all_events[idx]
           continue == /\ idx' = NextEvent(idx)
                       /\ UNCHANGED <<pc, result, exception>>
       IN  IF Decodes(event.args) /\ Known(event.event)
           THEN /\ relays' = Append(relays, Relay(event, outcome))
                /\ events_processed' =
                     IF Counted(outcome) THEN events_processed + 1
                     ELSE events_processed
                /\ continue
           ELSE \* AttributeError, or an unknown event name: `continue`;
                \* nothing is sent, so there is one such step, not three
                /\ outcome = "failed"
                /\ UNCHANGED <<relays, events_processed>>
                /\ IF ~Decodes(event.args) /\ DecodeErrorRaises
                   THEN Raise("decode") /\ UNCHANGED idx
                   ELSE continue
    /\ UNCHANGED <<head, logs, txCount, chain, latest_block, start_block,
                   current_block, all_events, scanNo, skipped, grown,
                   queried, log_fetch_batch_size>>

\* The loop is over: scan_blocks returns events_processed.
Finish ==
    /\ pc = "process"
    /\ idx > Len(all_events)
    /\ pc' = "done"
    /\ result' = "returned"
    /\ UNCHANGED exception
    /\ UNCHANGED <<head, logs, txCount, relays, chain, latest_block,
                   start_block, current_block, all_events, idx,
                   events_processed, scanNo, skipped, grown, queried,
                   log_fetch_batch_size>>

\* The chains grow.
Grow ==
    \E c \in RPC_URLS, n \in Strides : \E ks \in {<<>>} \cup
        {<<k>> : k \in LogKinds(c)} \cup
        {<<k1, k2>> : k1, k2 \in LogKinds(c)} : NewBlocks(c, n, ks)

\* A step of the scan in progress, or of the chain it sends to; `again` is
\* whether the nodes may list a log twice.
ScanStepWith(again) ==
    \/ \E c \in RPC_URLS : Mine(c)
    \/ \E env \in Environments : Setup(env)
    \/ \E ok \in BOOLEAN : DetermineRange(ok)
    \/ \E ok \in BOOLEAN : FetchSource(ok, again)
    \/ \E answer \in {"ok", "notfound", "error"} : FetchBatch(answer, again)
    \/ \E outcome \in {"sent", "failed", "reverted"} : ProcessEvent(outcome)
    \/ Finish

\* The same with nodes that list every log once.
ScanStep == ScanStepWith(FALSE)

\* Scan after scan, of either chain (or of a chain name scan_blocks does not
\* know); between two scans the scanned chain grows by one stride at most.
Next ==
    \/ ~grown /\ Grow
    \/ \E c \in RPC_URLS \cup {"mainnet"} : StartScan(c)
    \/ ScanStep

Spec == Init /\ [][Next]_vars

\* One scan, of chains that have grown in any number of strides.
NextOneScan ==
    \/ Grow
    \/ scanNo = 0 /\ \E c \in RPC_URLS \cup {"mainnet"} : StartScan(c)
    \/ ScanStep

SpecOneScan == Init /\ [][NextOneScan]_vars

\* One scan against nodes that may list a log twice.
NextRepeats ==
    \/ Grow
    \/ scanNo = 0 /\ \E c \in RPC_URLS \cup {"mainnet"} : StartScan(c)
    \/ ScanStepWith(TRUE)

SpecRepeats == Init /\ [][NextRepeats]_vars

\* __main__ leaves: sys.exit(1) in either handler when a scan raised, the
\* end of the script after the destination scan returned.
Exit ==
    /\ pc = "done"
    /\ result = "raised" \/ chain = "destination"
    /\ pc' = "exited"
    /\ UNCHANGED <<head, logs, txCount, relays>>
    /\ UNCHANGED scanVars

\* The exit status of the process that has left.
ExitCode == IF result = "raised" THEN 1 ELSE 0

\* __main__: scan_blocks('source'), then, if it returned,
\* scan_blocks('destination'); before each scan the chain it reads has grown
\* by one stride at most.
NextMain ==
    \/ ~grown /\ Grow
    \/ pc = "idle" /\ StartScan("source")
    \/ /\ pc = "done"
       /\ result = "returned"
       /\ chain = "source"
       /\ StartScan("destination")
    \/ ScanStep
    \/ Exit

SpecMain == Init /\ [][NextMain]_vars

\* A scan of chain c at the start of its loop over all_events: the one
\* block of c holds up to MaxEvents logs of the scanned event, each decoded
\* in any of the shapes, and the scan has collected them all.
InitDispatch ==
    \E c \in RPC_URLS, n \in 0..MaxEvents : \E shapes \in [1..n -> Shapes] :
        LET entries == [k \in 1..n |->
                          DecodedLog(c, ScannedEvent(c), k, shapes[k], 1, k - 1)]
        IN  /\ head = [r \in RPC_URLS |-> IF r = c THEN 1 ELSE 0]
            /\ logs = [r \in RPC_URLS |-> IF r = c THEN entries ELSE <<>>]
            /\ txCount = [r \in RPC_URLS |-> 0]
            /\ pc = "process"
            /\ chain = c
            /\ latest_block = 1
            /\ start_block = 0
            /\ current_block = IF c = "destination" THEN 2 ELSE 0
            /\ all_events = entries
            /\ idx = 1
            /\ events_processed = 0
            /\ result = "none"
            /\ exception = "none"
            /\ scanNo = 1
            /\ skipped = {}
            /\ grown = TRUE
            /\ queried = IF c = "destination" THEN <<<<0, 0>>, <<1, 1>>>>
                         ELSE <<<<0, 1>>>>
            /\ log_fetch_batch_size = LOG_FETCH_BATCH_SIZE
            /\ relays = <<>>

\* The loop over all_events and the chain it sends to.
NextDispatch ==
    \/ \E c \in RPC_URLS : Mine(c)
    \/ \E outcome \in {"sent", "failed", "reverted"} : ProcessEvent(outcome)
    \/ Finish

SpecDispatch == InitDispatch /\ [][NextDispatch]_vars

\* A destination scan at the start of its batch loop, for any window
\* [start, latest] within MaxBlock and any LOG_FETCH_BATCH_SIZE from 1 to
\* MaxBatchSize; the contract has no logs.
InitBatchLoop ==
    \E latest \in 0..MaxBlock : \E start \in 0..latest :
    \E size \in 1..MaxBatchSize :
        /\ head = [r \in RPC_URLS |->
                      IF r = "destination" THEN latest ELSE 0]
        /\ logs = [r \in RPC_URLS |-> <<>>]
        /\ txCount = [r \in RPC_URLS |-> 0]
        /\ pc = "fetch"
        /\ chain = "destination"
        /\ latest_block = latest
        /\ start_block = start
        /\ current_block = start
        /\ all_events = <<>>
        /\ idx = 1
        /\ events_processed = 0
        /\ result = "none"
        /\ exception = "none"
        /\ scanNo = 1
        /\ skipped = {}
        /\ grown = TRUE
        /\ queried = <<>>
        /\ log_fetch_batch_size = size
        /\ relays = <<>>

\* The turns of the batch loop.
NextBatchLoop ==
    \E answer \in {"ok", "notfound", "error"} : FetchBatch(answer, FALSE)

SpecBatchLoop == InitBatchLoop /\ [][NextBatchLoop]_vars

\* ------------------------------------------------------------ properties

Range(s) == {s[i] : i \in 1..Len(s)}

\* The relays of the scan in progress (or just over).
ThisScan == {i \in 1..Len(relays) : relays[i].scan = scanNo}

\* Relay i is of the logical event (role, nonce) of relay j.
SameEvent(i, j) ==
    /\ relays[i].role = relays[j].role
    /\ relays[i].nonce = relays[j].nonce

\* The log of chain c at place (block, index).
LogAt(c, block, index) ==
    CHOOSE e \in Range(logs[c]) : e.blockNumber = block /\ e.logIndex = index

\* The entries of all_events the loop has gone through.
Processed == {all_events[k] : k \in 1..(idx - 1)}

\* Relay i is the relay of entry e in the scan in progress.
RelayOf(i, e) ==
    /\ i \in ThisScan
    /\ relays[i].blockNumber = e.blockNumber
    /\ relays[i].logIndex = e.logIndex

\* C1: for any event (role, nonce), however often overlapping scans return
\* it, at most one wrap/withdraw transaction is ever submitted.
C1_AtMostOneSubmission ==
    \A i, j \in 1..Len(relays) :
        (i < j /\ SameEvent(i, j) /\ relays[i].outcome = "sent")
            => relays[j].outcome # "sent"

\* C2: a dispatched Deposit is a call of wrap on the destination chain, a
\* dispatched Unwrap a call of withdraw on the source chain, each with the
\* token, account, amount and nonce of the log it comes from; every decoded
\* Deposit or Unwrap the loop has gone through was dispatched, and a log of
\* another event was not.
C2_EventToAction ==
    /\ \A i \in 1..Len(relays) :
          LET r == relays[i]
              e == LogAt(r.role, r.blockNumber, r.logIndex)
          IN  /\ e.event \in {"Deposit", "Unwrap"}
              /\ e.event = "Deposit" =>
                    r.function = "wrap" /\ r.target = "destination"
              /\ e.event = "Unwrap" =>
                    r.function = "withdraw" /\ r.target = "source"
              /\ r.arguments =
                    <<e.args.token, e.args.user, e.args.amount, e.args.nonce>>
    /\ \A e \in Processed :
          (e.event \in {"Deposit", "Unwrap"} /\ "user" \in DOMAIN e.args)
              <=> \E i \in 1..Len(relays) : RelayOf(i, e)

\* A scan has returned after it submitted the wrap of a Deposit, with a
\* Transfer log in its window.
C2_Witness ==
    /\ pc = "done"
    /\ result = "returned"
    /\ \E i \in ThisScan :
          /\ relays[i].function = "wrap"
          /\ relays[i].outcome = "sent"
          /\ relays[i].arguments = <<"T", "A", 100, 1>>
    /\ \E e \in Range(logs[chain]) :
          /\ e.event = "Transfer"
          /\ start_block <= e.blockNumber
          /\ e.blockNumber <= latest_block


\* The scan in progress has a window: eth.block_number has answered.
HasWindow ==
    \/ pc \in {"fetch", "process"}
    \/ pc = "done" /\ (result = "returned" \/ exception = "get_logs")

\* The scan in progress is through with fetching and did not raise.
Fetched == pc = "process" \/ (pc = "done" /\ result = "returned")

\* Block b lies in a sub-range whose query failed.
InSkipped(b) ==
    \E from \in skipped : from <= b /\ b <= BatchEnd(from, latest_block)

\* C3: in a batched scan a sub-range whose query fails is skipped and the
\* scan goes on: it does not raise, every log of the window outside the
\* failed sub-ranges is collected, and at the end of the scan every such log
\* that decodes as an Unwrap has been dispatched.
C3_BatchIsolation ==
    chain = "destination" =>
        /\ skipped # {} => result # "raised"
        /\ Fetched =>
              \A e \in Range(LogsIn("destination", start_block, latest_block)) :
                  ~InSkipped(e.blockNumber) => e \in Range(all_events)
        /\ (pc = "done" /\ result = "returned") =>
              \A e \in Range(LogsIn("destination", start_block, latest_block)) :
                  (/\ ~InSkipped(e.blockNumber)
                   /\ e.event = "Unwrap"
                   /\ "user" \in DOMAIN e.args)
                      => \E i \in 1..Len(relays) : RelayOf(i, e)

\* A destination scan has returned after a failed query, having sent the
\* withdraw of an Unwrap of a later block.
C3_Witness ==
    /\ chain = "destination"
    /\ pc = "done"
    /\ result = "returned"
    /\ \E from \in skipped : \E i \in ThisScan :
          /\ relays[i].blockNumber > from
          /\ relays[i].function = "withdraw"
          /\ relays[i].outcome = "sent"

\* C4: for either role, an error of one log query never aborts the scan:
\* scan_blocks does not raise it.
C4_QueryErrorNeverRaised == ~(result = "raised" /\ exception = "get_logs")

\* C5: the window is [max(0, L - N), L] for the latest block L: the start is
\* never negative and never past L.
C5_Clamping ==
    HasWindow =>
        /\ latest_block = head[chain]
        /\ start_block >= 0
        /\ start_block <= latest_block
        /\ latest_block >= BLOCKS_TO_SCAN =>
              start_block = latest_block - BLOCKS_TO_SCAN
        /\ latest_block < BLOCKS_TO_SCAN => start_block = 0

\* The latest block is 3 and the window starts at block 0.
C5_Witness ==
    /\ pc = "fetch"
    /\ latest_block = 3
    /\ start_block = 0


\* C6: a scan over a window in which no log matches the event collects
\* nothing, submits nothing and returns 0, for either role (unless the one
\* query of a source scan itself raised).
C6_EmptyResult ==
    (/\ HasWindow
     /\ LogsIn(chain, start_block, latest_block) = <<>>
     /\ exception # "get_logs")
        => /\ all_events = <<>>
           /\ ThisScan = {}
           /\ events_processed = 0
           /\ result # "raised"
           /\ pc = "done" => result = "returned"

\* A destination scan whose contract has logs, none of them a match within
\* the window, has returned 0.
C6_Witness ==
    /\ chain = "destination"
    /\ pc = "done"
    /\ result = "returned"
    /\ events_processed = 0
    /\ logs["destination"] # <<>>
    /\ LogsIn("destination", start_block, latest_block) = <<>>
    /\ skipped = {}

\* C7: when a submission for an event has failed and a later attempt for the
\* same event succeeds, the successful attempt carries the warden's
\* transaction count as the target chain gives it at that attempt.
C7_FreshNonceOnRetry ==
    [][\A j \in 1..Len(relays') :
          (/\ j > Len(relays)
           /\ relays'[j].outcome = "sent"
           /\ \E i \in 1..Len(relays) :
                 /\ relays[i].outcome = "failed"
                 /\ relays[i].role = relays'[j].role
                 /\ relays[i].nonce = relays'[j].nonce)
              => relays'[j].warden_nonce = txCount[relays'[j].target]]_vars

\* An event whose submission failed was submitted by a later attempt, with
\* another warden nonce than the failed attempt's.
C7_Witness ==
    \E i, j \in 1..Len(relays) :
        /\ i < j
        /\ SameEvent(i, j)
        /\ relays[i].outcome = "failed"
        /\ relays[j].outcome = "sent"
        /\ relays[j].warden_nonce # relays[i].warden_nonce

\* C8: a submission that failed with a transient error is retried for the
\* same event: when the scan returns, the event has had a further attempt in
\* that scan.
C8_TransientFailureRetried ==
    (pc = "done" /\ result = "returned") =>
        \A i \in ThisScan :
            relays[i].outcome = "failed" =>
                \E j \in ThisScan : j # i /\ SameEvent(i, j)

\* C9: once the relay of an event was rejected by contract logic, the event
\* is never relayed again, in that scan or a later one.
C9_RevertedNeverRelayedAgain ==
    \A i, j \in 1..Len(relays) :
        (SameEvent(i, j) /\ relays[i].outcome = "reverted") => j <= i

\* C10: within one scan the events are dispatched in ascending block number,
\* then log index, whatever order the queries return them in.
C10_DispatchOrder ==
    \A i, j \in ThisScan :
        i < j =>
            \/ relays[i].blockNumber < relays[j].blockNumber
            \/ /\ relays[i].blockNumber = relays[j].blockNumber
               /\ relays[i].logIndex <= relays[j].logIndex

\* C11: the transactions one scan submits to a target chain carry warden
\* account nonces without reuse: no two submitted transactions of the same
\* scan carry the same account nonce, mined or not.
C11_NoNonceReuse ==
    \A i, j \in ThisScan :
        (/\ i < j
         /\ relays[i].outcome = "sent"
         /\ relays[j].outcome = "sent"
         /\ relays[i].target = relays[j].target)
            => relays[i].warden_nonce # relays[j].warden_nonce

\* The entries of all_events the loop has taken up to build a transaction
\* for, in the order of the loop.
Dispatched ==
    SelectSeq(SubSeq(all_events, 1, idx - 1),
              LAMBDA e : Decodes(e.args) /\ Known(e.event))

\* The build/sign/send passes of the scan in progress, in order.
ThisScanRelays == SelectSeq(relays, LAMBDA r : r.scan = scanNo)

\* The scan is in (or just through) its loop over all_events.
InLoop == pc = "process" \/ (pc \in {"done", "exited"} /\ result = "returned")

LogId(i) ==
    LET e == LogAt(relays[i].role, relays[i].blockNumber, relays[i].logIndex)
    IN  <<e.transactionHash, e.logIndex>>

\* C13: entries of one scan with the same (tx_hash, log_index) collapse to
\* one event: a scan submits at most one transaction per distinct
\* (tx_hash, log_index).
C13_OneSubmissionPerLog ==
    \A i, j \in ThisScan :
        (/\ i < j
         /\ relays[i].outcome = "sent"
         /\ relays[j].outcome = "sent")
            => LogId(i) # LogId(j)

\* C14: the process exits with status 0 whenever the scanning completed,
\* whatever the outcomes of the relays; it exits with another status only on
\* a configuration or connectivity failure that prevented scanning: the setup
\* or the reading of the latest block of the first scan failed.
C14_ExitStatus ==
    pc = "exited" =>
        /\ result = "returned" => ExitCode = 0
        /\ ExitCode # 0 =>
              /\ exception \in {"setup", "block_number"}
              /\ scanNo = 1

\* An endpoint of env does not answer, or its contract info file is missing
\* or malformed, or lacks a role, or lacks 'address' or 'abi' for a role.
Faulty(env) ==
    \/ \E c \in RPC_URLS : ~env.up[c]
    \/ env.file \in {"missing", "malformed"}
    \/ \E c \in RPC_URLS : c \notin DOMAIN env.data
    \/ \E c \in RPC_URLS :
          c \in DOMAIN env.data /\ ~({"address", "abi"} \subseteq env.data[c])

\* C15: with a chain name other than 'source' and 'destination', or in a
\* faulty environment, scan_blocks raises out of its argument check or its
\* setup; a scan that raised there has made no log query and no pass through
\* the build/sign/send block, and the step that raises changes nothing else.
C15_SetupFailureIsFatal ==
    /\ []((result = "raised" /\ exception \in {"chain", "setup"}) =>
             /\ pc \in {"done", "exited"}
             /\ queried = <<>>
             /\ ThisScan = {}
             /\ all_events = <<>>)
    /\ [][\A env \in Environments :
             (Faulty(env) /\ Setup(env)) =>
                 /\ result' = "raised"
                 /\ exception' = "setup"
                 /\ UNCHANGED <<queried, relays, txCount>>]_vars
    /\ [][\A c \in {"mainnet"} :
             StartScan(c) =>
                 /\ result' = "raised"
                 /\ exception' = "chain"
                 /\ queried' = <<>>
                 /\ UNCHANGED <<relays, txCount>>]_vars

\* A scan of a chain with a log to relay has raised out of its setup.
C15_Witness ==
    /\ pc = "done"
    /\ result = "raised"
    /\ exception = "setup"
    /\ LogsIn(chain, StartBlock(head[chain]), head[chain]) # <<>>
    /\ queried = <<>>

\* The arguments of entry e have the four fields the loop reads.
HasAllFields(e) ==
    \A f \in {"token", "user", "amount", "nonce"} : f \in DOMAIN e.args

\* C16: an entry whose decoded arguments lack token, user, amount or nonce
\* is dropped: no transaction is built for it.  The drop does not end the
\* scan: the scan raises only out of what comes before the loop, every entry
\* with all four fields that the loop has gone through has had its pass, and
\* a scan that returned has gone through every entry.
C16_DecodeIsolation ==
    /\ \A e \in Processed :
          HasAllFields(e) <=> \E i \in ThisScan : RelayOf(i, e)
    /\ result = "raised" =>
          exception \in {"chain", "setup", "block_number", "get_logs"}
    /\ (pc = "done" /\ result = "returned") =>
          /\ idx = Len(all_events) + 1
          /\ events_processed <=
                Cardinality({k \in 1..Len(all_events) :
                                HasAllFields(all_events[k])})

\* A scan has returned 1 after it dropped an entry without `nonce` and then
\* submitted the transaction of the entry after it.
C16_Witness ==
    /\ pc = "done"
    /\ result = "returned"
    /\ Len(all_events) = 2
    /\ "nonce" \notin DOMAIN all_events[1].args
    /\ HasAllFields(all_events[2])
    /\ events_processed = 1
    /\ Len(relays) = 1
    /\ relays[1].logIndex = all_events[2].logIndex
    /\ relays[1].outcome = "sent"

\* The sub-ranges queried so far that hold block b.
QueriesOf(b) ==
    {k \in 1..Len(queried) : queried[k][1] <= b /\ b <= queried[k][2]}

\* C17: the sub-ranges the batch loop of a destination scan queries start at
\* the window's start, follow one another without gap or overlap, hold
\* between one block and LOG_FETCH_BATCH_SIZE blocks, and stay within the
\* window; when the loop is over every block of the window lies in exactly
\* one of them, whether queries failed or not.  The loop terminates: every
\* turn makes one query and moves current_block forward, and the loop is
\* left when current_block has passed the latest block.
C17_BatchLoopCoverage ==
    /\ []((chain = "destination" /\ (pc = "fetch" \/ Fetched)) =>
             /\ \A k \in 1..Len(queried) :
                   /\ queried[k][1] <= queried[k][2]
                   /\ queried[k][2] - queried[k][1] + 1 <= log_fetch_batch_size
                   /\ start_block <= queried[k][1]
                   /\ queried[k][2] <= latest_block
                   /\ k = 1 => queried[k][1] = start_block
                   /\ k > 1 => queried[k][1] = queried[k - 1][2] + 1
             /\ current_block = IF queried = <<>> THEN start_block
                                ELSE queried[Len(queried)][2] + 1
             /\ \A b \in start_block..latest_block :
                   Cardinality(QueriesOf(b)) <= 1
             /\ pc = "fetch" => current_block <= latest_block
             /\ Fetched =>
                   /\ current_block = latest_block + 1
                   /\ \A b \in start_block..latest_block :
                         Cardinality(QueriesOf(b)) = 1)
    /\ [][(chain = "destination" /\ pc = "fetch") =>
             /\ current_block' > current_block
             /\ current_block' <= latest_block + 1
             /\ Len(queried') = Len(queried) + 1
             /\ UNCHANGED <<start_block, latest_block, log_fetch_batch_size>>
         ]_vars

\* The loop is over for the window [1, 7] in batches of 3 blocks: blocks 1-3,
\* 4-6 (whose query failed) and 7.
C17_Witness ==
    /\ chain = "destination"
    /\ pc = "process"
    /\ log_fetch_batch_size = 3
    /\ queried = <<<<1, 3>>, <<4, 6>>, <<7, 7>>>>
    /\ skipped = {4}

\* The passes of the scan in progress whose send_raw_transaction returned.
Submitted == {i \in ThisScan : relays[i].outcome = "sent"}

\* C18: the count that scan_blocks returns is the number of entries of the
\* scan whose raw transaction was submitted: it lies between 0 and the number
\* of entries collected, and an entry that did not decode or whose submission
\* failed or reverted is not in it.
C18_ReturnValue ==
    /\ events_processed = Cardinality(Submitted)
    /\ (pc = "done" /\ result = "returned") =>
          /\ 0 <= events_processed
          /\ events_processed <= Len(all_events)
          /\ events_processed =
                Len(all_events)
                - Cardinality({k \in 1..Len(all_events) :
                                  ~Decodes(all_events[k].args)})
                - Cardinality({i \in ThisScan :
                                  relays[i].outcome \in {"failed", "reverted"}})
    /\ result = "raised" => events_processed = 0

\* A scan that collected two entries has returned 1: one transaction was
\* submitted and the other submission failed.
C18_Witness ==
    /\ pc = "done"
    /\ result = "returned"
    /\ Len(all_events) = 2
    /\ events_processed = 1
    /\ \E i \in ThisScan : relays[i].outcome = "failed"

\* C19: every transaction a scan of the source chain builds goes to the
\* destination chain and every transaction a scan of the destination chain
\* builds goes to the source chain; no step of a scan builds a transaction
\* for the chain being scanned, which gets the log queries only.
C19_OppositeChainOnly ==
    /\ [](\A i \in 1..Len(relays) :
             /\ relays[i].role = "source" => relays[i].target = "destination"
             /\ relays[i].role = "destination" => relays[i].target = "source")
    /\ [][\A j \in 1..Len(relays') :
             j > Len(relays) =>
                 /\ relays'[j].role = chain
                 /\ relays'[j].target # chain
                 /\ queried' = queried]_vars
    /\ [][queried' # queried => relays' = relays]_vars

\* __main__ has left after the source scan submitted a wrap to the
\* destination chain and the destination scan a withdraw to the source chain.
C19_Witness ==
    /\ pc = "exited"
    /\ \E i, j \in 1..Len(relays) :
          /\ relays[i].role = "source"
          /\ relays[i].function = "wrap"
          /\ relays[i].outcome = "sent"
          /\ relays[j].role = "destination"
          /\ relays[j].function = "withdraw"
          /\ relays[j].outcome = "sent"

=============================================================================
